---------------------------- MODULE Spec2Model ----------------------------
(***************************************************************************)
(* A model of smartSNI (src/main.go): the SNI proxy (handleConnection and  *)
(* the ClientHello sniffer), the DNS resolver shared by the DoH and DoT    *)
(* front-ends, and the token-bucket limiter the two DNS front-ends share.  *)
(*                                                                         *)
(* Byte strings are sequences of byte values (0..255).                     *)
(***************************************************************************)
EXTENDS Integers, Sequences, FiniteSets, TLC

(***************************************************************************)
(* Bounds of the model.                                                    *)
(***************************************************************************)
\* longest run of live bytes a client sends after its ClientHello
MaxLive == 2
\* longest byte stream a backend sends
MaxBackend == 1
\* admission checks that may be denied before the next refill
MaxOverBurst == 2
\* most questions a DNS query carries
MaxQuestions == 2

(***************************************************************************)
(* Strings.                                                                *)
(***************************************************************************)
\* strings.ToLower on one ASCII byte: 'A'..'Z' -> 'a'..'z'
LowerByte(c) == IF c >= 65 /\ c <= 90 THEN c + 32 ELSE c

ToLower(s) == [i \in 1..Len(s) |-> LowerByte(s[i])]

IsPrefix(p, s) == Len(p) <= Len(s) /\ SubSeq(s, 1, Len(p)) = p

HasByte(s, c) == \E i \in 1..Len(s) : s[i] = c

\* "443" and "8443" as bytes
Port443 == <<52, 52, 51>>
Port8443 == <<56, 52, 52, 51>>
\* "127.0.0.1" as bytes
Localhost == <<49, 50, 55, 46, 48, 46, 48, 46, 49>>

\* net.JoinHostPort: a host holding ':' or '%' is put in brackets
JoinHostPort(host, port) ==
    IF HasByte(host, 58) \/ HasByte(host, 37)
    THEN <<91>> \o host \o <<93, 58>> \o port
    ELSE host \o <<58>> \o port

\* index of the last ':' of hp, 0 when there is none
LastColon(hp) ==
    IF HasByte(hp, 58)
    THEN CHOOSE i \in 1..Len(hp) :
            hp[i] = 58 /\ \A j \in (i + 1)..Len(hp) : hp[j] # 58
    ELSE 0

\* net.SplitHostPort, as net.Dial applies it to the address it is given
SplitHostPort(hp) ==
    LET i == LastColon(hp)
        bad == [ok |-> FALSE, host |-> <<>>, port |-> <<>>]
    IN IF i = 0 THEN bad
       ELSE IF Len(hp) > 0 /\ hp[1] = 91
       THEN IF i >= 3 /\ hp[i - 1] = 93
                 /\ \A j \in 2..(i - 2) : hp[j] # 93
            THEN [ok |-> TRUE, host |-> SubSeq(hp, 2, i - 2),
                  port |-> SubSeq(hp, i + 1, Len(hp))]
            ELSE bad
       ELSE IF HasByte(SubSeq(hp, 1, i - 1), 58) THEN bad
       ELSE [ok |-> TRUE, host |-> SubSeq(hp, 1, i - 1),
             port |-> SubSeq(hp, i + 1, Len(hp))]

(***************************************************************************)
(* Configuration (config.json, loaded once by main).                       *)
(***************************************************************************)
\* config.Host: "ab"
ConfigHost == <<97, 98>>

(***************************************************************************)
(* The inbound TLS stream.  A ClientHello record is modelled as the record *)
(* type byte 22, one length byte and the server name; every other first    *)
(* byte is a malformed record.                                             *)
(***************************************************************************)
EncodeHello(name) == <<22, Len(name)>> \o name

\* what the TLS server role makes of the bytes read so far
ParseClientHello(buf) ==
    IF Len(buf) = 0 THEN [st |-> "need", name |-> <<>>]
    ELSE IF buf[1] # 22 THEN [st |-> "bad", name |-> <<>>]
    ELSE IF Len(buf) < 2 \/ Len(buf) < 2 + buf[2]
         THEN [st |-> "need", name |-> <<>>]
    ELSE [st |-> "ok", name |-> SubSeq(buf, 3, 2 + buf[2])]

\* server names clients present: "", "ab", "AB", "Ab", "b", "a:"
SniNames ==
    {<<>>, <<97, 98>>, <<65, 66>>, <<65, 98>>, <<98>>, <<97, 58>>}

\* live bytes following the ClientHello: prefixes of "xyz..."
LiveBytes == {[i \in 1..n |-> 119 + i] : n \in 0..MaxLive}

StrictPrefixes(s) == {SubSeq(s, 1, n) : n \in 0..(Len(s) - 1)}

\* streams that carry a complete ClientHello
WellFormedStreams == {EncodeHello(nm) \o lv : nm \in SniNames, lv \in LiveBytes}

\* streams that end inside the ClientHello, and streams that are not TLS
BrokenStreams ==
    (UNION {StrictPrefixes(EncodeHello(nm)) : nm \in SniNames})
        \cup {<<71>>, <<71, 69>>}

BackendStreams == {[i \in 1..n |-> 79 + i] : n \in 0..MaxBackend}

VARIABLES
    \* ---- the client's side of the inbound connection
    clientStream,     \* every byte the client sends, in order
    clientState,      \* "open", "fin" (end-of-stream after the bytes), "rst"
    clientRead,       \* how many bytes of clientStream the proxy has read
    toClient,         \* bytes written to the client socket
    \* ---- clientConn as handleConnection holds it
    clientClosed,     \* clientConn.Close() has run
    clientWrClosed,   \* clientConn.CloseWrite() has run
    readDeadline,     \* a read deadline is set on clientConn
    \* ---- readClientHello / peekClientHello
    peekedBytes,      \* the TeeReader's side buffer
    hello,            \* [set, name]: the captured ClientHelloInfo
    sniffWg,          \* readClientHello's WaitGroup counter
    roWriteFails,     \* writes refused by readOnlyConn.Write
    \* ---- the backend connection
    dialTarget,       \* address given to net.DialTimeout
    dials,            \* number of dial attempts
    backendState,     \* "none", "open", "fin", "rst"
    backendStream,    \* every byte the backend sends (known once dialed)
    backendRead,      \* how many of them the proxy has read
    toBackend,        \* bytes written to the backend socket
    backendClosed,    \* backendConn.Close() has run
    backendWrClosed,  \* backendConn.CloseWrite() has run
    backendWriteErr,  \* a write to the backend has failed
    \* ---- control
    pc,               \* handleConnection
    pcC2B,            \* the client -> backend goroutine
    pcB2C,            \* the backend -> client goroutine
    c2bSawEOF,        \* the client -> backend copy read the client's EOF
    relayWg           \* handleConnection's WaitGroup counter

sniVars ==
    <<clientStream, clientState, clientRead, toClient, clientClosed,
      clientWrClosed, readDeadline, peekedBytes, hello, sniffWg, roWriteFails,
      dialTarget, dials, backendState, backendStream, backendRead, toBackend,
      backendClosed, backendWrClosed, backendWriteErr, pc, pcC2B, pcB2C,
      c2bSawEOF, relayWg>>

VARIABLES
    \* ---- the rate.Limiter shared by the DoH and DoT front-ends
    limTokens,        \* tokens in the bucket
    limElapsed,       \* clock ticks since the bucket was last brought up to date
    limMu,            \* the limiter's mutex: "free" or the handler holding it
    winStart,         \* tokens available when time last advanced
    winAllowed,       \* checks allowed since time last advanced
    winDenied,        \* checks denied since time last advanced
    \* ---- the DoH request handler and the DoT connection handler
    hpc,              \* where each handler is
    hSeen,            \* [full, tokens]: what each handler finds under the mutex
    hOk               \* the result of each handler's limiter.Allow()

limVars ==
    <<limTokens, limElapsed, limMu, winStart, winAllowed, winDenied, hpc,
      hSeen, hOk>>

VARIABLES
    \* ---- one DNS exchange, over DoH or over DoT
    dohBody,          \* the DoH request body
    dotIn,            \* the bytes the DoT client sends before it ends its stream
    dotPos,           \* how many of them handleDoTConnection has read
    msgLen,           \* dnsMessageLength
    procArg,          \* the bytes given to processDNSQuery
    resp,             \* [st, data]: what processDNSQuery returned
    upstreamPosted,   \* the bodies posted to the upstream resolver, in order
    upstreamBody,     \* the body of the upstream resolver's response
    dotOut,           \* the writes made to the DoT connection, in order
    dotClosed,        \* conn.Close() has run
    dohStatus,        \* the HTTP status written (0: none yet)
    dohContentType,   \* the Content-Type header written
    dohOut            \* the HTTP response body written

dnsVars ==
    <<dohBody, dotIn, dotPos, msgLen, procArg, resp, upstreamPosted,
      upstreamBody, dotOut, dotClosed, dohStatus, dohContentType, dohOut>>

\* the limiter's variables but the handlers' positions
limState ==
    <<limTokens, limElapsed, limMu, winStart, winAllowed, winDenied, hSeen,
      hOk>>

\* everything the SNI proxy never touches
dnsSide == <<limVars, dnsVars>>

vars == <<sniVars, dnsSide>>

Min(a, b) == IF a <= b THEN a ELSE b

(***************************************************************************)
(* The rate limiter: rate.NewLimiter(10, 50), a token bucket from          *)
(* golang.org/x/time/rate, modelled by what that package documents.  The   *)
(* clock ticks LimiterRate times a second, so a tick refills one token.    *)
(* The bucket is refilled lazily: Allow brings it up to date under the     *)
(* limiter's mutex, takes a token if there is one, and never blocks.       *)
(***************************************************************************)
\* rate.NewLimiter(10, 50): tokens per second, and the burst capacity
LimiterRate == 10
LimiterBurst == 50

TicksPerSecond == LimiterRate

TokensPerTick == LimiterRate \div TicksPerSecond

\* ticks after which an empty bucket is full again
FullRefillTicks == LimiterBurst \div TokensPerTick

Handlers == {"doh", "dot"}

NothingSeen == [full |-> FALSE, tokens |-> 0]

\* the limiter as main creates it, no handler running
LimIdle ==
    /\ limTokens = LimiterBurst
    /\ limElapsed = 0
    /\ limMu = "free"
    /\ winStart = LimiterBurst
    /\ winAllowed = 0
    /\ winDenied = 0
    /\ hpc = [h \in Handlers |-> "off"]
    /\ hSeen = [h \in Handlers |-> NothingSeen]
    /\ hOk = [h \in Handlers |-> FALSE]

\* a bucket that is brought up to date without the burst cap
AdvanceUncapped(tokens, elapsed) == tokens + elapsed * TokensPerTick

\* Limiter.advance: the tokens after elapsed ticks, capped at the burst
Advance(tokens, elapsed) ==
    Min(LimiterBurst, tokens + elapsed * TokensPerTick)

\* a mutex that lets everyone in
MutexIgnored == TRUE

\* lim.mu can be taken
MutexFree == limMu = "free"

\* the tokens a check made now would find
TokensNow == Advance(limTokens, limElapsed)

\* limiter.Allow(), first half: take the mutex, bring the bucket up to date;
\* full records that the time of a full refill had passed
AllowEnter(h) ==
    /\ hpc[h] = "start"
    /\ MutexFree
    /\ limMu' = h
    /\ hSeen' = [hSeen EXCEPT ![h] =
                    [full |-> limElapsed >= FullRefillTicks,
                     tokens |-> Advance(limTokens, limElapsed)]]
    /\ hpc' = [hpc EXCEPT ![h] = "locked"]
    /\ UNCHANGED <<limTokens, limElapsed, winStart, winAllowed, winDenied, hOk>>
    /\ UNCHANGED <<sniVars, dnsVars>>

\* limiter.Allow(), second half: take one token if there is one, store the
\* bucket, release the mutex
AllowLeave(h) ==
    /\ hpc[h] = "locked"
    /\ IF hSeen[h].tokens >= 1
       THEN /\ limTokens' = hSeen[h].tokens - 1
            /\ limElapsed' = 0
            /\ hOk' = [hOk EXCEPT ![h] = TRUE]
            /\ winAllowed' = winAllowed + 1
            /\ UNCHANGED winDenied
       ELSE /\ hOk' = [hOk EXCEPT ![h] = FALSE]
            /\ winDenied' = winDenied + 1
            /\ UNCHANGED <<limTokens, limElapsed, winAllowed>>
    /\ limMu' = "free"
    /\ hSeen' = [hSeen EXCEPT ![h].tokens = 0]
    /\ hpc' = [hpc EXCEPT ![h] = "checked"]
    /\ UNCHANGED winStart
    /\ UNCHANGED <<sniVars, dnsVars>>

\* time passes: one tick, or as long as a full refill takes.  The critical
\* section of Allow takes no time at the clock's resolution.
Tick ==
    /\ limMu = "free"
    /\ \E d \in {1, FullRefillTicks} :
         /\ limElapsed' = Min(FullRefillTicks, limElapsed + d)
         /\ winStart' = Advance(limTokens, limElapsed')
    /\ winAllowed' = 0
    /\ winDenied' = 0
    /\ UNCHANGED <<limTokens, limMu, hpc, hSeen, hOk>>
    /\ UNCHANGED <<sniVars, dnsVars>>

\* the handler, admitted or refused, finishes, and the front-end hands it
\* the next request or connection
NextRequest(h) ==
    /\ hpc[h] = "checked"
    /\ winDenied < MaxOverBurst
    /\ hpc' = [hpc EXCEPT ![h] = "start"]
    /\ hSeen' = [hSeen EXCEPT ![h] = NothingSeen]
    /\ hOk' = [hOk EXCEPT ![h] = FALSE]
    /\ UNCHANGED <<limTokens, limElapsed, limMu, winStart, winAllowed,
                   winDenied>>
    /\ UNCHANGED <<sniVars, dnsVars>>



(***************************************************************************)
(* DNS messages.  The wire form of a message is a question count, an       *)
(* answer count, the questions (each a length byte and a name) and the     *)
(* answers (each a length byte and a name, a type byte, a length byte and  *)
(* the address).  A byte string that may be too long to write out is held  *)
(* as [bytes, pad]: the bytes, followed by pad zero bytes.                 *)
(***************************************************************************)
Blob(b, n) == [bytes |-> b, pad |-> n]

ByteLen(blob) == Len(blob.bytes) + blob.pad

\* the values of a uint16
Uint16Mod == 65536

\* the conversion uint16(n)
ToUint16(n) == n % Uint16Mod

\* binary.BigEndian.PutUint16 and binary.BigEndian.Uint16
PutUint16(v) == <<(v \div 256) % 256, v % 256>>

BigEndianUint16(b) == b[1] * 256 + b[2]

RECURSIVE Flatten(_)
Flatten(ss) == IF Len(ss) = 0 THEN <<>> ELSE Head(ss) \o Flatten(Tail(ss))

PackQuestion(name) == <<Len(name)>> \o name

PackAnswer(rr) ==
    <<Len(rr.name)>> \o rr.name \o <<rr.type, Len(rr.addr)>> \o rr.addr

\* dns.Msg.Pack
Pack(m) ==
    <<Len(m.question), Len(m.answer)>>
        \o Flatten([i \in 1..Len(m.question) |-> PackQuestion(m.question[i])])
        \o Flatten([i \in 1..Len(m.answer) |-> PackAnswer(m.answer[i])])

ParseFail == [ok |-> FALSE, items |-> <<>>, next |-> 0]

RECURSIVE ParseQuestions(_, _, _)
ParseQuestions(b, pos, n) ==
    IF n = 0 THEN [ok |-> TRUE, items |-> <<>>, next |-> pos]
    ELSE IF pos > Len(b) \/ pos + b[pos] > Len(b) THEN ParseFail
    ELSE LET rest == ParseQuestions(b, pos + 1 + b[pos], n - 1)
         IN IF rest.ok
            THEN [ok |-> TRUE,
                  items |-> <<SubSeq(b, pos + 1, pos + b[pos])>> \o rest.items,
                  next |-> rest.next]
            ELSE ParseFail

RECURSIVE ParseAnswers(_, _, _)
ParseAnswers(b, pos, n) ==
    IF n = 0 THEN [ok |-> TRUE, items |-> <<>>, next |-> pos]
    ELSE IF pos > Len(b) \/ pos + b[pos] + 2 > Len(b) THEN ParseFail
    ELSE LET nameEnd == pos + b[pos]
             alen == b[nameEnd + 2]
         IN IF nameEnd + 2 + alen > Len(b) THEN ParseFail
            ELSE LET rest == ParseAnswers(b, nameEnd + 3 + alen, n - 1)
                     rr == [name |-> SubSeq(b, pos + 1, nameEnd),
                            type |-> b[nameEnd + 1],
                            addr |-> SubSeq(b, nameEnd + 3, nameEnd + 2 + alen)]
                 IN IF rest.ok
                    THEN [ok |-> TRUE, items |-> <<rr>> \o rest.items,
                          next |-> rest.next]
                    ELSE ParseFail

UnpackFail == [ok |-> FALSE, question |-> <<>>, answer |-> <<>>]

\* dns.Msg.Unpack
Unpack(b) ==
    IF Len(b) < 2 THEN UnpackFail
    ELSE LET qs == ParseQuestions(b, 3, b[1])
         IN IF ~qs.ok THEN UnpackFail
            ELSE LET as == ParseAnswers(b, qs.next, b[2])
                 IN IF ~as.ok THEN UnpackFail
                    ELSE [ok |-> TRUE, question |-> qs.items,
                          answer |-> as.items]

\* strings.Contains
Contains(str, sub) ==
    \E i \in 1..(Len(str) - Len(sub) + 1) :
        SubSeq(str, i, i + Len(sub) - 1) = sub

\* the text is an IPv4 address literal, as the A record parser demands
IsIPv4Text(t) ==
    /\ Len(t) > 0
    /\ \A i \in 1..Len(t) : t[i] = 46 \/ (t[i] >= 48 /\ t[i] <= 57)
    /\ Cardinality({i \in 1..Len(t) : t[i] = 46}) = 3

\* dns.NewRR(domain + " A " + ip): an A record, or an error
NewRR(domain, ip) ==
    IF IsIPv4Text(ip)
    THEN [ok |-> TRUE, rr |-> [name |-> domain, type |-> 1, addr |-> ip]]
    ELSE [ok |-> FALSE, rr |-> [name |-> <<>>, type |-> 0, addr |-> <<>>]]

\* config.Domains: {"ab": "1.2.3.4", "C": "::1"}
ConfigDomains ==
    [k \in {<<97, 98>>, <<67>>} |->
        IF k = <<97, 98>> THEN <<49, 46, 50, 46, 51, 46, 52>>
                          ELSE <<58, 58, 49>>]

\* findValueByKeyContains: the keys whose match the map's iteration order
\* may return first
MatchingKeys(m, substr) ==
    {key \in DOMAIN m : Contains(ToLower(substr), ToLower(key))}

\* queried names: "ab.", "xAB.", "c.", "d."
QueryNames == {<<97, 98, 46>>, <<120, 65, 66, 46>>, <<99, 46>>, <<100, 46>>}

QuestionLists ==
    UNION {[1..n -> QueryNames] : n \in 0..MaxQuestions}

\* queries that unpack
GoodQueries == {Pack([question |-> qs, answer |-> <<>>]) : qs \in QuestionLists}

\* queries cut short, and the empty query
BadQueries ==
    {SubSeq(q, 1, Len(q) - 1) :
        q \in {Pack([question |-> <<nm>>, answer |-> <<>>]) : nm \in QueryNames}}
        \cup {<<>>}

Queries == GoodQueries \cup BadQueries

\* a DoT frame: the 2-byte big-endian length, then the message
Frame(q) == PutUint16(ToUint16(Len(q))) \o q

\* what a DoT client may send for a query before it ends its stream: the
\* frame, the frame twice, one byte of it, all but its last byte
DotStreams(q) ==
    {Frame(q), Frame(q) \o Frame(q), SubSeq(Frame(q), 1, 1),
     SubSeq(Frame(q), 1, Len(Frame(q)) - 1)}

\* bodies the upstream resolver may answer with: of 0, 2, 65535, 65536 and
\* 65538 bytes
UpstreamBodies ==
    {Blob(<<>>, 0), Blob(<<7, 9>>, 0), Blob(<<7>>, Uint16Mod - 2),
     Blob(<<7>>, Uint16Mod - 1), Blob(<<7>>, Uint16Mod + 1)}

NoResp == [st |-> "none", data |-> Blob(<<>>, 0)]

ErrResp == [st |-> "err", data |-> Blob(<<>>, 0)]

OkResp(blob) == [st |-> "ok", data |-> blob]

\* the bodies http.Error writes
RateLimitText == Blob(<<82, 97, 116, 101, 32, 108, 105, 109, 105, 116, 32, 101, 120, 99, 101, 101, 100, 101, 100, 10>>, 0)
BodyReadText == Blob(<<70, 97, 105, 108, 101, 100, 32, 116, 111, 32, 114, 101, 97, 100, 32, 114, 101, 113, 117, 101, 115, 116, 32, 98, 111, 100, 121, 10>>, 0)
ResolveFailedText == Blob(<<70, 97, 105, 108, 101, 100, 32, 116, 111, 32, 112, 97, 99, 107, 32, 68, 78, 83, 32, 114, 101, 115, 112, 111, 110, 115, 101, 10>>, 0)

(***************************************************************************)
(* The DNS front-ends: handleDoHRequest, handleDoTConnection, and          *)
(* processDNSQuery, which both call.                                       *)
(***************************************************************************)
\* no DNS exchange under way
DnsIdle ==
    /\ dohBody = <<>>
    /\ dotIn = <<>>
    /\ dotPos = 0
    /\ msgLen = 0
    /\ procArg = <<>>
    /\ resp = NoResp
    /\ upstreamPosted = <<>>
    /\ upstreamBody = Blob(<<>>, 0)
    /\ dotOut = <<>>
    /\ dotClosed = FALSE
    /\ dohStatus = 0
    /\ dohContentType = ""
    /\ dohOut = Blob(<<>>, 0)

\* a body made of the first question alone
PostBodyFirstQuestion(query) ==
    Pack([question |-> SubSeq(Unpack(query).question, 1, 1), answer |-> <<>>])

\* the body posted upstream: bytes.NewReader(query)
PostBody(query) == query

\* processDNSQuery up to its return or to its upstream call
ProcessQuery(h) ==
    /\ hpc[h] = "process"
    /\ LET msg == Unpack(procArg)
       IN IF ~msg.ok \/ Len(msg.question) = 0
          THEN /\ resp' = ErrResp
               /\ hpc' = [hpc EXCEPT ![h] = "processed"]
               /\ UNCHANGED upstreamPosted
          ELSE LET domain == msg.question[1]
                   keys == MatchingKeys(ConfigDomains, domain)
               IN IF keys # {}
                  THEN /\ \E key \in keys :
                            LET r == NewRR(domain, ConfigDomains[key])
                            IN resp' =
                                 IF r.ok
                                 THEN OkResp(Blob(Pack(
                                        [question |-> msg.question,
                                         answer |-> Append(msg.answer, r.rr)]), 0))
                                 ELSE ErrResp
                       /\ hpc' = [hpc EXCEPT ![h] = "processed"]
                       /\ UNCHANGED upstreamPosted
                  ELSE /\ upstreamPosted' = Append(upstreamPosted, PostBody(procArg))
                       /\ hpc' = [hpc EXCEPT ![h] = "upstream"]
                       /\ UNCHANGED resp
    /\ UNCHANGED <<dohBody, dotIn, dotPos, msgLen, procArg, upstreamBody,
                   dotOut, dotClosed, dohStatus, dohContentType, dohOut>>
    /\ UNCHANGED <<limState, sniVars>>

\* an upstream call that is made a second time when the first one fails
UpstreamRetries(h) ==
    /\ hpc[h] = "upstream"
    /\ \/ /\ Len(upstreamPosted) < 2
          /\ upstreamPosted' = Append(upstreamPosted, PostBody(procArg))
          /\ UNCHANGED <<resp, upstreamBody, hpc>>
       \/ /\ resp' = ErrResp
          /\ hpc' = [hpc EXCEPT ![h] = "processed"]
          /\ UNCHANGED <<upstreamBody, upstreamPosted>>
       \/ \E body \in UpstreamBodies :
            /\ upstreamBody' = body
            /\ resp' \in {OkResp(body), ErrResp}
            /\ hpc' = [hpc EXCEPT ![h] = "processed"]
            /\ UNCHANGED upstreamPosted
    /\ UNCHANGED <<dohBody, dotIn, dotPos, msgLen, procArg,
                   dotOut, dotClosed, dohStatus, dohContentType, dohOut>>
    /\ UNCHANGED <<limState, sniVars>>

\* http.Post returns and io.ReadAll reads the body: the post fails, or the
\* body is read whole, or reading it fails
UpstreamResponds(h) ==
    /\ hpc[h] = "upstream"
    /\ \/ /\ resp' = ErrResp
          /\ UNCHANGED upstreamBody
       \/ \E body \in UpstreamBodies :
            /\ upstreamBody' = body
            /\ resp' \in {OkResp(body), ErrResp}
    /\ hpc' = [hpc EXCEPT ![h] = "processed"]
    /\ UNCHANGED <<dohBody, dotIn, dotPos, msgLen, procArg, upstreamPosted,
                   dotOut, dotClosed, dohStatus, dohContentType, dohOut>>
    /\ UNCHANGED <<limState, sniVars>>

\* a denial that does not return: the request goes on to the resolver
DohRefusedResolves ==
    /\ hpc["doh"] = "checked"
    /\ ~hOk["doh"]
    /\ procArg' = dohBody
    /\ hpc' = [hpc EXCEPT !["doh"] = "process"]
    /\ UNCHANGED <<dohBody, dotIn, dotPos, msgLen, resp, upstreamPosted,
                   upstreamBody, dotOut, dotClosed, dohStatus,
                   dohContentType, dohOut>>
    /\ UNCHANGED <<limState, sniVars>>

\* handleDoHRequest: limiter.Allow() said no
DohRefused ==
    /\ hpc["doh"] = "checked"
    /\ ~hOk["doh"]
    /\ dohStatus' = 429
    /\ dohContentType' = "text/plain; charset=utf-8"
    /\ dohOut' = RateLimitText
    /\ hpc' = [hpc EXCEPT !["doh"] = "done"]
    /\ UNCHANGED <<dohBody, dotIn, dotPos, msgLen, procArg, resp,
                   upstreamPosted, upstreamBody, dotOut, dotClosed>>
    /\ UNCHANGED <<limState, sniVars>>

\* handleDoHRequest: io.ReadAll(r.Body)
DohReadBody ==
    /\ hpc["doh"] = "checked"
    /\ hOk["doh"]
    /\ \/ /\ procArg' = dohBody
          /\ hpc' = [hpc EXCEPT !["doh"] = "process"]
          /\ UNCHANGED <<dohStatus, dohContentType, dohOut>>
       \/ /\ dohStatus' = 500
          /\ dohContentType' = "text/plain; charset=utf-8"
          /\ dohOut' = BodyReadText
          /\ hpc' = [hpc EXCEPT !["doh"] = "done"]
          /\ UNCHANGED procArg
    /\ UNCHANGED <<dohBody, dotIn, dotPos, msgLen, resp, upstreamPosted,
                   upstreamBody, dotOut, dotClosed>>
    /\ UNCHANGED <<limState, sniVars>>

\* handleDoHRequest: the resolver returned
DohRespond ==
    /\ hpc["doh"] = "processed"
    /\ IF resp.st = "err"
       THEN /\ dohStatus' = 500
            /\ dohContentType' = "text/plain; charset=utf-8"
            /\ dohOut' = ResolveFailedText
       ELSE /\ dohStatus' = 200
            /\ dohContentType' = "application/dns-message"
            /\ dohOut' = resp.data
    /\ hpc' = [hpc EXCEPT !["doh"] = "done"]
    /\ UNCHANGED <<dohBody, dotIn, dotPos, msgLen, procArg, resp,
                   upstreamPosted, upstreamBody, dotOut, dotClosed>>
    /\ UNCHANGED <<limState, sniVars>>

\* handleDoTConnection returns: the deferred conn.Close() runs
DotReturn ==
    /\ dotClosed' = TRUE
    /\ hpc' = [hpc EXCEPT !["dot"] = "closed"]

\* handleDoTConnection: limiter.Allow() said no
DotRefused ==
    /\ hpc["dot"] = "checked"
    /\ ~hOk["dot"]
    /\ DotReturn
    /\ UNCHANGED <<dohBody, dotIn, dotPos, msgLen, procArg, resp,
                   upstreamPosted, upstreamBody, dotOut, dohStatus,
                   dohContentType, dohOut>>
    /\ UNCHANGED <<limState, sniVars>>

\* handleDoTConnection: io.ReadFull(conn, lengthBuf)
DotReadLen ==
    /\ hpc["dot"] = "checked"
    /\ hOk["dot"]
    /\ IF Len(dotIn) - dotPos >= 2
       THEN /\ msgLen' = BigEndianUint16(SubSeq(dotIn, dotPos + 1, dotPos + 2))
            /\ dotPos' = dotPos + 2
            /\ hpc' = [hpc EXCEPT !["dot"] = "readMsg"]
            /\ UNCHANGED dotClosed
       ELSE /\ dotPos' = Len(dotIn)
            /\ DotReturn
            /\ UNCHANGED msgLen
    /\ UNCHANGED <<dohBody, dotIn, procArg, resp, upstreamPosted,
                   upstreamBody, dotOut, dohStatus, dohContentType, dohOut>>
    /\ UNCHANGED <<limState, sniVars>>

\* handleDoTConnection: io.ReadFull(conn, buffer)
DotReadMsg ==
    /\ hpc["dot"] = "readMsg"
    /\ IF Len(dotIn) - dotPos >= msgLen
       THEN /\ procArg' = SubSeq(dotIn, dotPos + 1, dotPos + msgLen)
            /\ dotPos' = dotPos + msgLen
            /\ hpc' = [hpc EXCEPT !["dot"] = "process"]
            /\ UNCHANGED dotClosed
       ELSE /\ dotPos' = Len(dotIn)
            /\ DotReturn
            /\ UNCHANGED procArg
    /\ UNCHANGED <<dohBody, dotIn, msgLen, resp, upstreamPosted,
                   upstreamBody, dotOut, dohStatus, dohContentType, dohOut>>
    /\ UNCHANGED <<limState, sniVars>>

\* responseLength: binary.BigEndian.PutUint16(.., uint16(len(response)))
ResponseLength(response) ==
    Blob(PutUint16(ToUint16(ByteLen(response))), 0)

\* a resolver failure that does not return: the empty response is framed
\* and written like any other
DotWriteLenOnError ==
    /\ hpc["dot"] = "processed"
    /\ \/ /\ dotOut' = Append(dotOut, ResponseLength(resp.data))
          /\ hpc' = [hpc EXCEPT !["dot"] = "writeMsg"]
          /\ UNCHANGED dotClosed
       \/ /\ DotReturn
          /\ UNCHANGED dotOut
    /\ UNCHANGED <<dohBody, dotIn, dotPos, msgLen, procArg, resp,
                   upstreamPosted, upstreamBody, dohStatus, dohContentType,
                   dohOut>>
    /\ UNCHANGED <<limState, sniVars>>

\* handleDoTConnection: the resolver returned; conn.Write(responseLength)
DotWriteLen ==
    /\ hpc["dot"] = "processed"
    /\ \/ /\ resp.st = "err"
          /\ DotReturn
          /\ UNCHANGED dotOut
       \/ /\ resp.st = "ok"
          /\ \/ /\ dotOut' = Append(dotOut, ResponseLength(resp.data))
                /\ hpc' = [hpc EXCEPT !["dot"] = "writeMsg"]
                /\ UNCHANGED dotClosed
             \/ /\ DotReturn
                /\ UNCHANGED dotOut
    /\ UNCHANGED <<dohBody, dotIn, dotPos, msgLen, procArg, resp,
                   upstreamPosted, upstreamBody, dohStatus, dohContentType,
                   dohOut>>
    /\ UNCHANGED <<limState, sniVars>>

\* a handler that, its response written, goes back to read the next frame
DotWriteMsgThenNext ==
    /\ hpc["dot"] = "writeMsg"
    /\ \/ /\ dotOut' = Append(dotOut, resp.data)
          /\ hpc' = [hpc EXCEPT !["dot"] = "checked"]
          /\ UNCHANGED dotClosed
       \/ /\ DotReturn
          /\ UNCHANGED dotOut
    /\ UNCHANGED <<dohBody, dotIn, dotPos, msgLen, procArg, resp,
                   upstreamPosted, upstreamBody, dohStatus, dohContentType,
                   dohOut>>
    /\ UNCHANGED <<limState, sniVars>>

\* handleDoTConnection: conn.Write(response), then return
DotWriteMsg ==
    /\ hpc["dot"] = "writeMsg"
    /\ \/ dotOut' = Append(dotOut, resp.data)
       \/ UNCHANGED dotOut
    /\ DotReturn
    /\ UNCHANGED <<dohBody, dotIn, dotPos, msgLen, procArg, resp,
                   upstreamPosted, upstreamBody, dohStatus, dohContentType,
                   dohOut>>
    /\ UNCHANGED <<limState, sniVars>>

\* the SNI proxy with no connection accepted
SniIdle ==
    /\ clientStream = <<>>
    /\ backendStream = <<>>
    /\ clientState = "open"
    /\ clientRead = 0
    /\ toClient = <<>>
    /\ clientClosed = FALSE
    /\ clientWrClosed = FALSE
    /\ readDeadline = FALSE
    /\ peekedBytes = <<>>
    /\ hello = [set |-> FALSE, name |-> <<>>]
    /\ sniffWg = 0
    /\ roWriteFails = 0
    /\ dialTarget = <<>>
    /\ dials = 0
    /\ backendState = "none"
    /\ backendRead = 0
    /\ toBackend = <<>>
    /\ backendClosed = FALSE
    /\ backendWrClosed = FALSE
    /\ backendWriteErr = FALSE
    /\ pc = "off"
    /\ pcC2B = "idle"
    /\ pcB2C = "idle"
    /\ c2bSawEOF = FALSE
    /\ relayWg = 0

\* one DNS exchange arrives, over DoH or over DoT, at a limiter whose
\* bucket is full, holds one token or is empty
DnsInit ==
    /\ SniIdle
    /\ \E q \in Queries :
         \/ /\ dohBody = q
            /\ dotIn = <<>>
            /\ hpc = [h \in Handlers |-> IF h = "doh" THEN "start" ELSE "off"]
         \/ /\ dohBody = <<>>
            /\ dotIn \in DotStreams(q)
            /\ hpc = [h \in Handlers |-> IF h = "dot" THEN "start" ELSE "off"]
    /\ dotPos = 0
    /\ msgLen = 0
    /\ procArg = <<>>
    /\ resp = NoResp
    /\ upstreamPosted = <<>>
    /\ upstreamBody = Blob(<<>>, 0)
    /\ dotOut = <<>>
    /\ dotClosed = FALSE
    /\ dohStatus = 0
    /\ dohContentType = ""
    /\ dohOut = Blob(<<>>, 0)
    /\ limTokens \in {0, 1, LimiterBurst}
    /\ limElapsed = 0
    /\ limMu = "free"
    /\ winStart = limTokens
    /\ winAllowed = 0
    /\ winDenied = 0
    /\ hSeen = [h \in Handlers |-> NothingSeen]
    /\ hOk = [h \in Handlers |-> FALSE]

DnsNext ==
    \/ \E h \in Handlers : AllowEnter(h)
    \/ \E h \in Handlers : AllowLeave(h)
    \/ \E h \in Handlers : ProcessQuery(h)
    \/ \E h \in Handlers : UpstreamResponds(h)
    \/ DohRefused
    \/ DohReadBody
    \/ DohRespond
    \/ DotRefused
    \/ DotReadLen
    \/ DotReadMsg
    \/ DotWriteLen
    \/ DotWriteMsg

SpecDns == DnsInit /\ [][DnsNext]_vars

\* the two front-ends keep handing requests and connections to the limiter
LimInit ==
    /\ SniIdle
    /\ DnsIdle
    /\ limTokens = LimiterBurst
    /\ limElapsed = 0
    /\ limMu = "free"
    /\ winStart = LimiterBurst
    /\ winAllowed = 0
    /\ winDenied = 0
    /\ hpc = [h \in Handlers |-> "start"]
    /\ hSeen = [h \in Handlers |-> NothingSeen]
    /\ hOk = [h \in Handlers |-> FALSE]

LimNext ==
    \/ \E h \in Handlers : AllowEnter(h)
    \/ \E h \in Handlers : AllowLeave(h)
    \/ \E h \in Handlers : NextRequest(h)
    \/ Tick

SpecLimiter == LimInit /\ [][LimNext]_vars

(***************************************************************************)
(* The SNI proxy: handleConnection, peekClientHello, readClientHello.      *)
(***************************************************************************)
NoHello == [set |-> FALSE, name |-> <<>>]

SniInit ==
    /\ clientStream \in WellFormedStreams \cup BrokenStreams
    /\ backendStream = <<>>
    /\ clientState = "open"
    /\ clientRead = 0
    /\ toClient = <<>>
    /\ clientClosed = FALSE
    /\ clientWrClosed = FALSE
    /\ readDeadline = FALSE
    /\ peekedBytes = <<>>
    /\ hello = NoHello
    /\ sniffWg = 0
    /\ roWriteFails = 0
    /\ dialTarget = <<>>
    /\ dials = 0
    /\ backendState = "none"
    /\ backendRead = 0
    /\ toBackend = <<>>
    /\ backendClosed = FALSE
    /\ backendWrClosed = FALSE
    /\ backendWriteErr = FALSE
    /\ pc = "start"
    /\ pcC2B = "idle"
    /\ pcB2C = "idle"
    /\ c2bSawEOF = FALSE
    /\ relayWg = 0

\* a return that closes the client connection alone
HandlerReturnClientOnly ==
    /\ pc' = "done"
    /\ clientClosed' = TRUE
    /\ backendClosed' = backendClosed

\* handleConnection returns: the deferred Close calls run
HandlerReturn ==
    /\ pc' = "done"
    /\ clientClosed' = TRUE
    /\ backendClosed' = (backendState # "none")

\* handleConnection with an admission check in front: a token is taken from
\* the limiter, and with none left the connection is refused
AdmitThenSetSniffDeadline ==
    /\ pc = "start"
    /\ IF limTokens > 0
       THEN /\ limTokens' = limTokens - 1
            /\ winAllowed' = winAllowed + 1
            /\ readDeadline' = TRUE
            /\ pc' = "peek"
            /\ UNCHANGED <<clientClosed, backendClosed, winDenied>>
       ELSE /\ winDenied' = winDenied + 1
            /\ HandlerReturn
            /\ UNCHANGED <<readDeadline, limTokens, winAllowed>>
    /\ UNCHANGED <<limElapsed, limMu, winStart, hpc, hSeen, hOk, dnsVars>>
    /\ UNCHANGED <<clientStream, clientState, clientRead, toClient,
                   clientWrClosed, peekedBytes, hello, sniffWg, roWriteFails,
                   dialTarget, dials, backendState, backendStream, backendRead,
                   toBackend, backendWrClosed, backendWriteErr, pcC2B, pcB2C,
                   c2bSawEOF, relayWg>>

\* clientConn.SetReadDeadline(now + 5s)
SetSniffDeadline ==
    /\ pc = "start"
    /\ \/ /\ readDeadline' = TRUE
          /\ pc' = "peek"
          /\ UNCHANGED <<clientClosed, backendClosed>>
       \/ /\ HandlerReturn
          /\ UNCHANGED readDeadline
    /\ UNCHANGED dnsSide
    /\ UNCHANGED <<clientStream, clientState, clientRead, toClient,
                   clientWrClosed, peekedBytes, hello, sniffWg, roWriteFails,
                   dialTarget, dials, backendState, backendStream, backendRead,
                   toBackend, backendWrClosed, backendWriteErr, pcC2B, pcB2C,
                   c2bSawEOF, relayWg>>

\* peekClientHello makes the side buffer; readClientHello does wg.Add(1) and
\* starts the handshake
ReadClientHelloStart ==
    /\ pc = "peek"
    /\ peekedBytes' = <<>>
    /\ hello' = NoHello
    /\ sniffWg' = 1
    /\ pc' = "sniff"
    /\ UNCHANGED dnsSide
    /\ UNCHANGED <<clientStream, clientState, clientRead, toClient,
                   clientClosed, clientWrClosed, readDeadline, roWriteFails,
                   dialTarget, dials, backendState, backendStream, backendRead,
                   toBackend, backendClosed, backendWrClosed, backendWriteErr,
                   pcC2B, pcB2C, c2bSawEOF, relayWg>>

\* io.TeeReader: what is read is appended to the side buffer
Tee(buf, chunk) == buf \o chunk

\* an adapter whose Write reaches the connection
PassThroughWrite(out, p) == out \o p

\* readOnlyConn.Write: nothing reaches the client, the write fails
ReadOnlyConnWrite(out, p) == out

\* the GetConfigForClient hook: capture the ClientHelloInfo, wg.Done()
HookFires(name) ==
    /\ hello' = [set |-> TRUE, name |-> name]
    /\ sniffWg' = sniffWg - 1

\* tlsConn.Handshake reads n more bytes through readOnlyConn and the tee
SniffRead ==
    /\ pc = "sniff"
    /\ clientState # "rst"
    /\ \E n \in 1..(Len(clientStream) - clientRead) :
         LET chunk == SubSeq(clientStream, clientRead + 1, clientRead + n)
             buf == Tee(peekedBytes, chunk)
             p == ParseClientHello(buf)
         IN /\ peekedBytes' = buf
            /\ clientRead' = clientRead + n
            /\ \/ /\ p.st = "need"
                  /\ UNCHANGED <<hello, sniffWg, roWriteFails, toClient, pc>>
               \/ /\ p.st = "bad"
                  \* the alert the server role sends is refused by the adapter
                  /\ toClient' = ReadOnlyConnWrite(toClient, <<21>>)
                  /\ roWriteFails' = roWriteFails + 1
                  /\ pc' = "wgWait"
                  /\ UNCHANGED <<hello, sniffWg>>
               \/ /\ p.st = "ok"
                  /\ HookFires(p.name)
                  \* no certificate is configured: the handshake fails and
                  \* its alert is refused by the adapter
                  /\ toClient' = ReadOnlyConnWrite(toClient, <<21>>)
                  /\ roWriteFails' = roWriteFails + 1
                  /\ pc' = "wgWait"
    /\ UNCHANGED dnsSide
    /\ UNCHANGED <<clientStream, clientState, clientClosed, clientWrClosed,
                   readDeadline, dialTarget, dials, backendState,
                   backendStream, backendRead, toBackend, backendClosed,
                   backendWrClosed, backendWriteErr, pcC2B, pcB2C, c2bSawEOF,
                   relayWg>>

\* the handshake's read fails before a ClientHello is complete: the client
\* closed its side, reset the connection, or the read deadline passed
SniffReadFails ==
    /\ pc = "sniff"
    /\ \/ clientState = "fin" /\ clientRead = Len(clientStream)
       \/ clientState = "rst"
       \/ readDeadline
    /\ pc' = "wgWait"
    /\ UNCHANGED dnsSide
    /\ UNCHANGED <<clientStream, clientState, clientRead, toClient,
                   clientClosed, clientWrClosed, readDeadline, peekedBytes,
                   hello, sniffWg, roWriteFails, dialTarget, dials,
                   backendState, backendStream, backendRead, toBackend,
                   backendClosed, backendWrClosed, backendWriteErr, pcC2B,
                   pcB2C, c2bSawEOF, relayWg>>

\* wg.Wait() can return
SniffWgReleased == sniffWg = 0

\* readClientHello after Handshake returned: wg.Wait(), then the hello == nil
\* test; peekClientHello and handleConnection pass the failure on
SniffWait ==
    /\ pc = "wgWait"
    /\ SniffWgReleased
    /\ IF hello.set
       THEN /\ pc' = "clearDeadline"
            /\ UNCHANGED <<clientClosed, backendClosed>>
       ELSE HandlerReturn
    /\ UNCHANGED dnsSide
    /\ UNCHANGED <<clientStream, clientState, clientRead, toClient,
                   clientWrClosed, readDeadline, peekedBytes, hello, sniffWg,
                   roWriteFails, dialTarget, dials, backendState,
                   backendStream, backendRead, toBackend, backendWrClosed,
                   backendWriteErr, pcC2B, pcB2C, c2bSawEOF, relayWg>>

\* a handler that goes on to the dial with the sniff deadline still set
KeepSniffDeadline ==
    /\ pc = "clearDeadline"
    /\ \/ /\ pc' = "dial"
          /\ UNCHANGED <<readDeadline, clientClosed, backendClosed>>
       \/ /\ HandlerReturn
          /\ UNCHANGED readDeadline
    /\ UNCHANGED dnsSide
    /\ UNCHANGED <<clientStream, clientState, clientRead, toClient,
                   clientWrClosed, peekedBytes, hello, sniffWg, roWriteFails,
                   dialTarget, dials, backendState, backendStream, backendRead,
                   toBackend, backendWrClosed, backendWriteErr, pcC2B, pcB2C,
                   c2bSawEOF, relayWg>>

\* clientConn.SetReadDeadline(time.Time{})
ClearSniffDeadline ==
    /\ pc = "clearDeadline"
    /\ \/ /\ readDeadline' = FALSE
          /\ pc' = "dial"
          /\ UNCHANGED <<clientClosed, backendClosed>>
       \/ /\ HandlerReturn
          /\ UNCHANGED readDeadline
    /\ UNCHANGED dnsSide
    /\ UNCHANGED <<clientStream, clientState, clientRead, toClient,
                   clientWrClosed, peekedBytes, hello, sniffWg, roWriteFails,
                   dialTarget, dials, backendState, backendStream, backendRead,
                   toBackend, backendWrClosed, backendWriteErr, pcC2B, pcB2C,
                   c2bSawEOF, relayWg>>

\* the port the backend is dialed on
BackendPort(targetHost) ==
    IF targetHost = ConfigHost THEN Port8443 ELSE Port443

\* a comparison with config.Host made before the name is lower-cased
BackendAddrNoLower(serverName) ==
    JoinHostPort(ToLower(serverName), BackendPort(serverName))

\* the address handleConnection dials for a sniffed server name
BackendAddr(serverName) ==
    LET targetHost == ToLower(serverName)
    IN JoinHostPort(targetHost, BackendPort(targetHost))

\* a WaitGroup armed for one goroutine more than is started
RelayWgAddThree == 2 + 1

\* wg.Add(2)
RelayWgAdd == 2

\* net.DialTimeout, then on success the two copy goroutines are started
Dial ==
    /\ pc = "dial"
    /\ dialTarget' = BackendAddr(hello.name)
    /\ dials' = dials + 1
    /\ \/ /\ backendState' = "open"
          /\ backendStream' \in BackendStreams
          /\ relayWg' = RelayWgAdd
          /\ pcC2B' = "replay"
          /\ pcB2C' = "copy"
          /\ pc' = "relay"
          /\ UNCHANGED <<clientClosed, backendClosed>>
       \/ /\ HandlerReturn
          /\ UNCHANGED <<backendState, backendStream, relayWg, pcC2B, pcB2C>>
    /\ UNCHANGED dnsSide
    /\ UNCHANGED <<clientStream, clientState, clientRead, toClient,
                   clientWrClosed, readDeadline, peekedBytes, hello, sniffWg,
                   roWriteFails, backendRead, toBackend,
                   backendWrClosed, backendWriteErr, c2bSawEOF>>

(***************************************************************************)
(* The relay.  A write of data to a peer delivers k of its bytes: all of   *)
(* them when the peer has not reset the connection, fewer when the reset   *)
(* comes during the write (the write then fails, and so does every later   *)
(* one).                                                                   *)
(***************************************************************************)
WriteOutcomes(data, peerState) ==
    IF peerState = "rst" THEN {0} ELSE 0..Len(data)

\* a replay of the ClientHello alone, without the bytes read past it
ReplayHelloOnly == EncodeHello(hello.name)

\* what the client -> backend goroutine writes first
ReplaySource == peekedBytes

\* io.Copy(backendConn, clientHelloBytes): one write of the whole buffer;
\* its error is dropped
C2BReplay ==
    /\ pcC2B = "replay"
    /\ \E k \in WriteOutcomes(ReplaySource, backendState) :
         /\ toBackend' = toBackend \o SubSeq(ReplaySource, 1, k)
         /\ IF k = Len(ReplaySource) /\ backendState # "rst"
            THEN UNCHANGED <<backendState, backendWriteErr>>
            ELSE backendState' = "rst" /\ backendWriteErr' = TRUE
    /\ pcC2B' = "copy"
    /\ UNCHANGED dnsSide
    /\ UNCHANGED <<clientStream, clientState, clientRead, toClient,
                   clientClosed, clientWrClosed, readDeadline, peekedBytes,
                   hello, sniffWg, roWriteFails, dialTarget, dials,
                   backendStream, backendRead, backendClosed, backendWrClosed,
                   pc, pcB2C, c2bSawEOF, relayWg>>

\* io.Copy(backendConn, clientConn): read n bytes from the client and write
\* them to the backend; the copy ends on end-of-stream or on an error
C2BCopy ==
    /\ pcC2B = "copy"
    /\ \/ /\ clientState # "rst"
          /\ \E n \in 1..(Len(clientStream) - clientRead) :
               LET chunk == SubSeq(clientStream, clientRead + 1, clientRead + n)
               IN \E k \in WriteOutcomes(chunk, backendState) :
                    /\ clientRead' = clientRead + n
                    /\ toBackend' = toBackend \o SubSeq(chunk, 1, k)
                    /\ IF k = n /\ backendState # "rst"
                       THEN UNCHANGED <<backendState, backendWriteErr, pcC2B>>
                       ELSE /\ backendState' = "rst"
                            /\ backendWriteErr' = TRUE
                            /\ pcC2B' = "closeWrite"
          /\ UNCHANGED c2bSawEOF
       \/ /\ clientState = "fin"
          /\ clientRead = Len(clientStream)
          /\ c2bSawEOF' = TRUE
          /\ pcC2B' = "closeWrite"
          /\ UNCHANGED <<clientRead, toBackend, backendState, backendWriteErr>>
       \/ /\ clientState = "rst"
          /\ pcC2B' = "closeWrite"
          /\ UNCHANGED <<clientRead, toBackend, backendState, backendWriteErr,
                         c2bSawEOF>>
    /\ UNCHANGED dnsSide
    /\ UNCHANGED <<clientStream, clientState, toClient, clientClosed,
                   clientWrClosed, readDeadline, peekedBytes, hello, sniffWg,
                   roWriteFails, dialTarget, dials, backendStream, backendRead,
                   backendClosed, backendWrClosed, pc, pcB2C, relayWg>>

\* a client -> backend goroutine that ends with backendConn.Close()
C2BCloseFully ==
    /\ pcC2B = "closeWrite"
    /\ backendWrClosed' = TRUE
    /\ backendClosed' = TRUE
    /\ pcC2B' = "wgDone"
    /\ UNCHANGED dnsSide
    /\ UNCHANGED <<clientStream, clientState, clientRead, toClient,
                   clientClosed, clientWrClosed, readDeadline, peekedBytes,
                   hello, sniffWg, roWriteFails, dialTarget, dials,
                   backendState, backendStream, backendRead, toBackend,
                   backendWriteErr, pc, pcB2C, c2bSawEOF, relayWg>>

\* backendConn.(*net.TCPConn).CloseWrite()
C2BCloseWrite ==
    /\ pcC2B = "closeWrite"
    /\ backendWrClosed' = TRUE
    /\ pcC2B' = "wgDone"
    /\ UNCHANGED dnsSide
    /\ UNCHANGED <<clientStream, clientState, clientRead, toClient,
                   clientClosed, clientWrClosed, readDeadline, peekedBytes,
                   hello, sniffWg, roWriteFails, dialTarget, dials,
                   backendState, backendStream, backendRead, toBackend,
                   backendClosed, backendWriteErr, pc, pcB2C, c2bSawEOF,
                   relayWg>>

\* wg.Done() of the client -> backend goroutine
C2BDone ==
    /\ pcC2B = "wgDone"
    /\ relayWg' = relayWg - 1
    /\ pcC2B' = "done"
    /\ UNCHANGED dnsSide
    /\ UNCHANGED <<clientStream, clientState, clientRead, toClient,
                   clientClosed, clientWrClosed, readDeadline, peekedBytes,
                   hello, sniffWg, roWriteFails, dialTarget, dials,
                   backendState, backendStream, backendRead, toBackend,
                   backendClosed, backendWrClosed, backendWriteErr, pc, pcB2C,
                   c2bSawEOF>>

\* io.Copy(clientConn, backendConn)
B2CCopy ==
    /\ pcB2C = "copy"
    /\ \/ /\ backendState # "rst"
          /\ \E n \in 1..(Len(backendStream) - backendRead) :
               LET chunk == SubSeq(backendStream, backendRead + 1, backendRead + n)
               IN \E k \in WriteOutcomes(chunk, clientState) :
                    /\ backendRead' = backendRead + n
                    /\ toClient' = toClient \o SubSeq(chunk, 1, k)
                    /\ IF k = n /\ clientState # "rst"
                       THEN UNCHANGED <<clientState, pcB2C>>
                       ELSE clientState' = "rst" /\ pcB2C' = "closeWrite"
       \/ /\ backendState = "fin"
          /\ backendRead = Len(backendStream)
          /\ pcB2C' = "closeWrite"
          /\ UNCHANGED <<backendRead, toClient, clientState>>
       \/ /\ backendState = "rst"
          /\ pcB2C' = "closeWrite"
          /\ UNCHANGED <<backendRead, toClient, clientState>>
    /\ UNCHANGED dnsSide
    /\ UNCHANGED <<clientStream, clientRead, clientClosed, clientWrClosed,
                   readDeadline, peekedBytes, hello, sniffWg, roWriteFails,
                   dialTarget, dials, backendState, backendStream, toBackend,
                   backendClosed, backendWrClosed, backendWriteErr, pc, pcC2B,
                   c2bSawEOF, relayWg>>

\* clientConn.(*net.TCPConn).CloseWrite()
B2CCloseWrite ==
    /\ pcB2C = "closeWrite"
    /\ clientWrClosed' = TRUE
    /\ pcB2C' = "wgDone"
    /\ UNCHANGED dnsSide
    /\ UNCHANGED <<clientStream, clientState, clientRead, toClient,
                   clientClosed, readDeadline, peekedBytes, hello, sniffWg,
                   roWriteFails, dialTarget, dials, backendState,
                   backendStream, backendRead, toBackend, backendClosed,
                   backendWrClosed, backendWriteErr, pc, pcC2B, c2bSawEOF,
                   relayWg>>

\* wg.Done() of the backend -> client goroutine
B2CDone ==
    /\ pcB2C = "wgDone"
    /\ relayWg' = relayWg - 1
    /\ pcB2C' = "done"
    /\ UNCHANGED dnsSide
    /\ UNCHANGED <<clientStream, clientState, clientRead, toClient,
                   clientClosed, clientWrClosed, readDeadline, peekedBytes,
                   hello, sniffWg, roWriteFails, dialTarget, dials,
                   backendState, backendStream, backendRead, toBackend,
                   backendClosed, backendWrClosed, backendWriteErr, pc, pcC2B,
                   c2bSawEOF>>

\* wg.Wait() of handleConnection, then the deferred Close calls
RelayWait ==
    /\ pc = "relay"
    /\ relayWg = 0
    /\ HandlerReturn
    /\ UNCHANGED dnsSide
    /\ UNCHANGED <<clientStream, clientState, clientRead, toClient,
                   clientWrClosed, readDeadline, peekedBytes, hello, sniffWg,
                   roWriteFails, dialTarget, dials, backendState,
                   backendStream, backendRead, toBackend, backendWrClosed,
                   backendWriteErr, pcC2B, pcB2C, c2bSawEOF, relayWg>>

(***************************************************************************)
(* The peers.                                                              *)
(***************************************************************************)
\* the client ends its stream (after the bytes of clientStream) or resets
ClientEnds ==
    /\ pc # "done"
    /\ \/ clientState = "open" /\ clientState' = "fin"
       \/ clientState \in {"open", "fin"} /\ clientState' = "rst"
    /\ UNCHANGED dnsSide
    /\ UNCHANGED <<clientStream, clientRead, toClient, clientClosed,
                   clientWrClosed, readDeadline, peekedBytes, hello, sniffWg,
                   roWriteFails, dialTarget, dials, backendState,
                   backendStream, backendRead, toBackend, backendClosed,
                   backendWrClosed, backendWriteErr, pc, pcC2B, pcB2C,
                   c2bSawEOF, relayWg>>

\* the backend ends its stream or resets
BackendEnds ==
    /\ pc # "done"
    /\ \/ backendState = "open" /\ backendState' = "fin"
       \/ backendState \in {"open", "fin"} /\ backendState' = "rst"
    /\ UNCHANGED dnsSide
    /\ UNCHANGED <<clientStream, clientState, clientRead, toClient,
                   clientClosed, clientWrClosed, readDeadline, peekedBytes,
                   hello, sniffWg, roWriteFails, dialTarget, dials,
                   backendStream, backendRead, toBackend, backendClosed,
                   backendWrClosed, backendWriteErr, pc, pcC2B, pcB2C,
                   c2bSawEOF, relayWg>>

HandlerStep ==
    \/ SetSniffDeadline
    \/ ReadClientHelloStart
    \/ SniffRead
    \/ SniffReadFails
    \/ SniffWait
    \/ ClearSniffDeadline
    \/ Dial
    \/ RelayWait

C2BStep == C2BReplay \/ C2BCopy \/ C2BCloseWrite \/ C2BDone

B2CStep == B2CCopy \/ B2CCloseWrite \/ B2CDone

SniNext ==
    \/ HandlerStep
    \/ C2BStep
    \/ B2CStep
    \/ ClientEnds
    \/ BackendEnds

\* one connection is accepted; the DNS side is idle
InitSni == SniInit /\ LimIdle /\ DnsIdle

SpecSni == InitSni /\ [][SniNext]_vars

\* the Go scheduler runs every goroutine that can take a step
FairSpecSni ==
    /\ SpecSni
    /\ WF_vars(HandlerStep)
    /\ WF_vars(C2BStep)
    /\ WF_vars(B2CStep)

\* net.Listen("tcp", ":443"): the SNI listener, on every local address
ListenAddr == JoinHostPort(<<>>, Port443)

\* net.DialTimeout("tcp", addr, ..) reaches the SNI listener: the ports are
\* the same and the host is empty, which a dial takes as the local system
DialsOwnListener(addr) ==
    LET target == SplitHostPort(addr)
        own == SplitHostPort(ListenAddr)
    IN /\ target.ok
       /\ target.port = own.port
       /\ target.host = <<>>

\* serveSniProxy: l.Accept() returns the next connection and handleConnection
\* is started on it; the handler followed is the newest one
Accept ==
    /\ pc \in {"off", "done"}
    /\ clientStream' \in WellFormedStreams \cup BrokenStreams
    /\ backendStream' = <<>>
    /\ clientState' = "open"
    /\ clientRead' = 0
    /\ toClient' = <<>>
    /\ clientClosed' = FALSE
    /\ clientWrClosed' = FALSE
    /\ readDeadline' = FALSE
    /\ peekedBytes' = <<>>
    /\ hello' = NoHello
    /\ sniffWg' = 0
    /\ roWriteFails' = 0
    /\ dialTarget' = <<>>
    /\ dials' = 0
    /\ backendState' = "none"
    /\ backendRead' = 0
    /\ toBackend' = <<>>
    /\ backendClosed' = FALSE
    /\ backendWrClosed' = FALSE
    /\ backendWriteErr' = FALSE
    /\ pc' = "start"
    /\ pcC2B' = "idle"
    /\ pcB2C' = "idle"
    /\ c2bSawEOF' = FALSE
    /\ relayWg' = 0
    /\ UNCHANGED dnsSide

\* main: the limiter is made and the SNI listener started; no DoH request
\* and no DoT connection arrives, and the bucket is full or has been drained
InitProxy ==
    /\ SniIdle
    /\ DnsIdle
    /\ limTokens \in {0, LimiterBurst}
    /\ limElapsed = 0
    /\ limMu = "free"
    /\ winStart = limTokens
    /\ winAllowed = 0
    /\ winDenied = 0
    /\ hpc = [h \in Handlers |-> "off"]
    /\ hSeen = [h \in Handlers |-> NothingSeen]
    /\ hOk = [h \in Handlers |-> FALSE]

ProxyNext ==
    \/ Accept
    \/ SniNext

\* the SNI listener serves one connection after another, without end
SpecProxy == InitProxy /\ [][ProxyNext]_vars

(***************************************************************************)
(* Properties of the SNI proxy.                                            *)
(***************************************************************************)
\* the server name the client's stream carries
SniOf(stream) == ParseClientHello(stream).name

SniffFailed == pc = "wgWait" /\ ~hello.set

\* C2: when the stream ends, fails, times out or is malformed before a
\* ClientHello is complete, readClientHello returns a failure and
\* handleConnection closes the client connection without dialing a backend.
C2_SniffFailureCloses ==
    SniffFailed ~> (pc = "done" /\ clientClosed /\ dials = 0)

\* both peers have ended their streams while the relay runs
BothEnded == pc = "relay" /\ clientState = "fin" /\ backendState = "fin"

\* C3: when both the client and the backend reach end-of-stream the relay
\* terminates and both sockets are closed.
C3_RelayTerminates ==
    BothEnded ~> (pc = "done" /\ clientClosed /\ backendClosed)

\* C3 witness: a relay that ended with both peers at end-of-stream
C3_Witness ==
    /\ pc = "done"
    /\ pcC2B = "done"
    /\ pcB2C = "done"
    /\ clientState = "fin"
    /\ backendState = "fin"
    /\ clientClosed
    /\ backendClosed

\* C4, as stated: the node's own host is routed to 127.0.0.1:8443, every
\* other name to the same name on port 443.
C4_Original ==
    dials > 0 =>
        dialTarget =
            IF ToLower(SniOf(clientStream)) = ConfigHost
            THEN JoinHostPort(Localhost, Port8443)
            ELSE JoinHostPort(ToLower(SniOf(clientStream)), Port443)

\* C4, amended: the dialed address names the lower-cased server name as its
\* host in both cases; its port is 8443 when that name equals config.Host
\* and 443 otherwise.
C4_BackendSelection ==
    dials > 0 =>
        LET sni == ToLower(SniOf(clientStream))
            addr == SplitHostPort(dialTarget)
        IN /\ addr.ok
           /\ addr.host = sni
           /\ addr.port = IF sni = ConfigHost THEN Port8443 ELSE Port443

\* C4 witness: a name that equals config.Host only once lower-cased
C4_Witness ==
    /\ dials > 0
    /\ SniOf(clientStream) # ConfigHost
    /\ ToLower(SniOf(clientStream)) = ConfigHost
    /\ dialTarget = JoinHostPort(ConfigHost, Port8443)

(***************************************************************************)
(* Properties of the DNS resolver and of the DoT framing.                  *)
(***************************************************************************)
\* processDNSQuery has returned
Resolved == resp.st # "none"

\* the query given to processDNSQuery unpacks and has a question
Parseable(q) == Unpack(q).ok /\ Len(Unpack(q).question) > 0

FirstName(q) == Unpack(q).question[1]

\* C5: for a parseable query whose first name contains an override key
\* (case-insensitively), whatever address literal is configured,
\* processDNSQuery succeeds, its response holds an address record for the
\* queried name with the address of a matching key, and nothing is posted
\* upstream.
C5_OverrideAnswersLocally ==
    (Resolved /\ Parseable(procArg)
        /\ MatchingKeys(ConfigDomains, FirstName(procArg)) # {}) =>
        /\ resp.st = "ok"
        /\ upstreamPosted = <<>>
        /\ LET r == Unpack(resp.data.bytes)
           IN /\ r.ok
              /\ \E i \in 1..Len(r.answer) :
                   /\ r.answer[i].name = FirstName(procArg)
                   /\ \E key \in MatchingKeys(ConfigDomains, FirstName(procArg)) :
                        r.answer[i].addr = ConfigDomains[key]

\* the query takes the upstream path
Forwarded(q) ==
    Parseable(q) /\ MatchingKeys(ConfigDomains, FirstName(q)) = {}

\* C6: for a parseable query whose first name matches no override key, the
\* one body posted upstream is the whole original query, and a successful
\* return carries exactly the upstream response body.
C6_ForwardPassThrough ==
    \A h \in Handlers :
        (hpc[h] \in {"upstream", "processed", "writeMsg", "closed", "done"}
            /\ Forwarded(procArg)) =>
            /\ upstreamPosted = <<procArg>>
            /\ (resp.st = "ok" => resp.data = upstreamBody)

\* C6 witness: a forwarded query of two questions, the second of which
\* matches an override key, answered with the upstream's body
C6_Witness ==
    /\ resp.st = "ok"
    /\ Forwarded(procArg)
    /\ Len(Unpack(procArg).question) = 2
    /\ MatchingKeys(ConfigDomains, Unpack(procArg).question[2]) # {}
    /\ upstreamPosted = <<procArg>>
    /\ ByteLen(upstreamBody) > 0
    /\ resp.data = upstreamBody

\* C7: the length prefix of every response frame written to a DoT
\* connection decodes to the length of the payload that follows it.
C7_PrefixMatchesLength ==
    Len(dotOut) >= 2 => BigEndianUint16(dotOut[1].bytes) = ByteLen(dotOut[2])

\* C8: a resolved response longer than 65535 bytes makes
\* handleDoTConnection close the connection with nothing written.
C8_OversizeIsFatal ==
    (hpc["dot"] \in {"writeMsg", "closed"} /\ resp.st = "ok"
        /\ ByteLen(resp.data) > Uint16Mod - 1) =>
        /\ dotOut = <<>>
        /\ dotClosed

C10_TokensConserved ==
    /\ limTokens \in 0..LimiterBurst
    /\ winAllowed <= winStart
    /\ TokensNow = winStart - winAllowed

\* C10 witness: the two handlers raced for the last token; one got it
C10_Witness ==
    /\ winStart >= 1
    /\ winAllowed = winStart
    /\ limTokens = 0
    /\ hpc["doh"] = "checked"
    /\ hpc["dot"] = "checked"
    /\ hOk["doh"] # hOk["dot"]

(***************************************************************************)
(* Properties of the failure paths of the DNS front-ends.                  *)
(***************************************************************************)
\* handleDoHRequest has answered with something other than success
DohFailed == dohStatus \notin {0, 200}

\* the resolver was never entered: no argument, no result, no upstream post
ResolverUntouched ==
    /\ procArg = <<>>
    /\ resp = NoResp
    /\ upstreamPosted = <<>>

\* C11 as stated: every non-success DoH response has an empty body.
C11_Original ==
    DohFailed => ByteLen(dohOut) = 0

\* C11: every non-success DoH response carries a status and the plain-text
\* message http.Error writes, never a DNS message: a request the limiter
\* denies gets 429 and "Rate limit exceeded" and the resolver is not
\* invoked; a request whose resolver fails gets 500 and "Failed to pack DNS
\* response".
C11_ErrorResponses ==
    /\ (hpc["doh"] = "done" /\ ~hOk["doh"]) =>
          /\ dohStatus = 429
          /\ dohOut = RateLimitText
          /\ ResolverUntouched
    /\ (hpc["doh"] = "done" /\ resp.st = "err") =>
          /\ dohStatus = 500
          /\ dohOut = ResolveFailedText
    /\ DohFailed =>
          /\ dohContentType = "text/plain; charset=utf-8"
          /\ dohOut \in {RateLimitText, BodyReadText, ResolveFailedText}
          /\ ByteLen(dohOut) > 0

\* C11 witness: a request denied at an empty bucket was answered with 429
\* and the text of http.Error
C11_Witness ==
    /\ hpc["doh"] = "done"
    /\ ~hOk["doh"]
    /\ limTokens = 0
    /\ dohStatus = 429
    /\ ByteLen(dohOut) = 20

\* handleDoTConnection has returned
DotReturned == hpc["dot"] = "closed"

\* the limiter denied the DoT connection
DotDenied == DotReturned /\ ~hOk["dot"]

\* one of the two io.ReadFull calls came up short: the connection was
\* admitted and the handler returned before the resolver was entered
DotShortRead == DotReturned /\ hOk["dot"] /\ resp = NoResp

\* the resolver returned an error to handleDoTConnection
DotResolveFailed == DotReturned /\ resp.st = "err"

\* C12: a DoT connection that the limiter denies, whose length read or
\* payload read is short, or whose resolver fails, is closed with zero
\* bytes written to it; a denied connection is moreover never read from
\* and its resolver is never invoked.
C12_DotFailuresAreSilent ==
    /\ (DotDenied \/ DotShortRead \/ DotResolveFailed) =>
          /\ dotOut = <<>>
          /\ dotClosed
    /\ DotDenied =>
          /\ dotPos = 0
          /\ msgLen = 0
          /\ ResolverUntouched

\* C12 witness: the payload read came up short of the announced length and
\* the connection was closed unanswered
C12_Witness ==
    /\ DotShortRead
    /\ msgLen > 0
    /\ Len(dotIn) - 2 < msgLen
    /\ dotPos = Len(dotIn)
    /\ dotOut = <<>>
    /\ dotClosed

(***************************************************************************)
(* Properties of the SNI path: admission, sniffing, closing, deadline.     *)
(***************************************************************************)
\* C13: however many connections the SNI listener serves, no admission
\* check is made on their path: the limiter's token count stays what it
\* was, no check is counted as allowed or denied, and so no connection is
\* refused for want of a token.
C13_SniBypassesLimiter ==
    /\ limTokens = winStart
    /\ limElapsed = 0
    /\ limMu = "free"
    /\ winAllowed = 0
    /\ winDenied = 0
    /\ \A h \in Handlers : hpc[h] = "off"

\* C13 witness: with the bucket empty a connection was accepted, sniffed and
\* is being relayed to its backend
C13_Witness ==
    /\ limTokens = 0
    /\ pc = "relay"
    /\ backendState = "open"
    /\ Len(toBackend) > 0
    /\ toBackend = clientStream

\* handleConnection is between accept and the start of the relay
BeforeRelay ==
    pc \in {"start", "peek", "sniff", "wgWait", "clearDeadline", "dial"}

\* handleConnection returned without a backend: the deadline could not be
\* set or cleared, the sniff failed, or the dial failed
FailedBeforeRelay == pc = "done" /\ backendState = "none"

\* the backend-to-client copy has not yet moved a byte
B2CNotStarted == pcB2C \in {"idle", "copy"} /\ backendRead = 0

\* C14: no byte reaches the real client while handleConnection sniffs and
\* dials, on any path where the sniff or the dial fails, or before the
\* backend-to-client copy starts; the writes of the TLS server role all
\* fail at readOnlyConn.
C14_SniffWritesNothing ==
    (BeforeRelay \/ FailedBeforeRelay \/ B2CNotStarted) => toClient = <<>>

\* C14 witness: the TLS server role tried to write (its alert) during the
\* sniff, the write failed, and the relay began with nothing sent to the
\* client
C14_Witness ==
    /\ pc = "relay"
    /\ roWriteFails > 0
    /\ B2CNotStarted
    /\ toClient = <<>>

\* a copy goroutine has been started and has not yet passed its wg.Done()
DirectionRunning ==
    \/ pcC2B \notin {"idle", "done"}
    \/ pcB2C \notin {"idle", "done"}

\* C15: a direction of the relay that has finished copying has half-closed
\* the write side of its destination and nothing else; while either
\* direction is running neither connection is fully closed; and the two
\* connections are fully closed only when both directions have finished.
C15_HalfCloseDiscipline ==
    /\ backendWrClosed <=> pcC2B \in {"wgDone", "done"}
    /\ clientWrClosed <=> pcB2C \in {"wgDone", "done"}
    /\ DirectionRunning => ~clientClosed /\ ~backendClosed
    /\ backendClosed => pcC2B = "done" /\ pcB2C = "done" /\ clientClosed

\* C15 witness: the client -> backend direction has finished and half-closed
\* the backend while the other direction still copies; nothing is closed
C15_Witness ==
    /\ pc = "relay"
    /\ pcC2B = "done"
    /\ backendWrClosed
    /\ pcB2C = "copy"
    /\ backendRead > 0
    /\ ~clientWrClosed
    /\ ~clientClosed
    /\ ~backendClosed

\* the number of backend connections handleConnection holds open
BackendConns == IF backendState # "none" /\ ~backendClosed THEN 1 ELSE 0

\* the sniff has produced a ClientHello
SniffSucceeded == hello.set /\ ParseClientHello(peekedBytes).st = "ok"

\* C16: a client connection in its relay phase has exactly one backend
\* connection, made by the one dial of its handler; there is no backend
\* connection before the sniff has succeeded; and once the handling of the
\* client connection is over its backend connection is closed.
C16_OneBackendPerClient ==
    /\ pc = "relay" => BackendConns = 1 /\ dials = 1
    /\ dials <= 1
    /\ BackendConns = 1 => SniffSucceeded /\ pc = "relay"
    /\ (pc = "done" \/ clientClosed) => BackendConns = 0

\* C16 witness: a connection was relayed over its one backend connection
\* and both were closed when the handler returned
C16_Witness ==
    /\ pc = "done"
    /\ dials = 1
    /\ backendState # "none"
    /\ backendClosed
    /\ clientClosed
    /\ Len(toBackend) > 0

\* handleConnection is sniffing: the deadline is set and not yet cleared
Sniffing == pc \in {"peek", "sniff", "wgWait", "clearDeadline"}

\* C17: nothing is read from the client before the read deadline is set;
\* the deadline stays set for the whole sniff; it is cleared before the
\* backend is dialed, so that no read deadline is active on the client
\* connection while it is relayed, however long the client stays idle.
C17_DeadlineBoundsSniffOnly ==
    /\ pc = "start" => clientRead = 0 /\ ~readDeadline
    /\ Sniffing => readDeadline
    /\ clientRead > 0 /\ BeforeRelay => readDeadline \/ pc = "dial"
    /\ pc \in {"dial", "relay"} => ~readDeadline
    /\ dials > 0 => ~readDeadline
    /\ DirectionRunning => ~readDeadline

\* C17 witness: a relayed client that has sent all it had and stays
\* connected and idle, its connection free of any read deadline
C17_Witness ==
    /\ pc = "relay"
    /\ pcC2B = "copy"
    /\ clientState = "open"
    /\ clientRead = Len(clientStream)
    /\ toBackend = clientStream
    /\ ~readDeadline

\* the one upstream call was made and processDNSQuery returned its error
UpstreamFailed ==
    /\ Len(upstreamPosted) = 1
    /\ resp.st = "err"

\* C18: a query that takes the upstream path is posted upstream exactly
\* once; when http.Post or the reading of its response body fails,
\* processDNSQuery returns the error at once, the DoH front-end answers
\* 500 and the DoT front-end closes the connection with nothing written.
C18_SingleUpstreamAttempt ==
    /\ Len(upstreamPosted) <= 1
    /\ \A h \in Handlers :
         (hpc[h] \in {"upstream", "processed", "writeMsg", "closed", "done"}
             /\ Forwarded(procArg)) => Len(upstreamPosted) = 1
    /\ UpstreamFailed =>
         /\ \A h \in Handlers : hpc[h] \notin {"upstream", "writeMsg"}
         /\ hpc["doh"] = "done" => dohStatus = 500
         /\ dotOut = <<>>
         /\ hpc["dot"] = "closed" => dotClosed

\* C18 witness: the upstream call of a DoT query failed and the connection
\* was closed unanswered after that one attempt
C18_Witness ==
    /\ UpstreamFailed
    /\ Forwarded(procArg)
    /\ hpc["dot"] = "closed"
    /\ dotClosed
    /\ dotOut = <<>>

\* C19: the backend handleConnection connects to is never the proxy's own
\* SNI listener, whatever server name the ClientHello carries, so that the
\* replayed ClientHello never comes back to handleConnection.
C19_NeverDialsItself ==
    backendState # "none" => ~DialsOwnListener(dialTarget)

\* the bytes of the first frame of the DoT stream: prefix and payload
FirstFrameLen == 2 + msgLen

\* C20: handleDoTConnection reads at most one query frame from a
\* connection and writes at most one response frame (a length prefix and a
\* payload) to it; once it has returned, the connection is closed and
\* nothing further is read or written, so a second frame is not answered.
C20_OneFramePerConnection ==
    /\ Len(dotOut) <= 2
    /\ Len(upstreamPosted) <= 1
    /\ hpc["dot"] \in {"process", "upstream", "processed", "writeMsg"} =>
          dotPos = FirstFrameLen
    /\ (DotReturned /\ resp # NoResp) => dotPos = FirstFrameLen
    /\ hpc["dot"] = "writeMsg" => Len(dotOut) = 1
    /\ DotReturned => dotClosed
    /\ dotClosed => DotReturned

\* C20 witness: two query frames arrived, the first was answered with one
\* response frame, and the connection was closed with the second unread
C20_Witness ==
    /\ DotReturned
    /\ dotClosed
    /\ Len(dotOut) = 2
    /\ dotPos = FirstFrameLen
    /\ Len(dotIn) = 2 * FirstFrameLen
    /\ SubSeq(dotIn, dotPos + 1, Len(dotIn)) = SubSeq(dotIn, 1, dotPos)

=============================================================================
